---- MODULE Spec2Model ----
(***************************************************************************)
(* Model of advanced-vector/vector.h: RawMemory<T> (an owned block of raw  *)
(* storage) and Vector<T> (a growable array built on it).                  *)
(*                                                                         *)
(* The heap is a map from buffer ids to sequences of slots.  A slot is Raw *)
(* (no live object), Moved (a live object in its moved-from state) or a    *)
(* value of Values (a live object with that value).  Every operation of    *)
(* Vector is an operator from a "world" record to a world record; a world  *)
(* carries the heap, the vectors, the locals of the running operation and  *)
(* the fault injection: cd counts down the operations of T (and the        *)
(* allocations) that are allowed to throw, the one that finds cd = 1       *)
(* throws.  Reading a destroyed object is undefined behaviour: it yields   *)
(* the arbitrary value g chosen for the call.                              *)
(***************************************************************************)
EXTENDS Integers, Sequences, FiniteSets, TLC

\* ---- bounds of the model ------------------------------------------------
MaxVal == 2
MaxCap == 4
MaxFail == MaxCap + 2
NumBufs == 3

\* ---- slots, buffers, vectors ---------------------------------------------
Raw == 0 - 1
Moved == 0
Values == 1..MaxVal
DefaultValue == 1
NullBuf == 0
BufIds == 1..NumBufs
Vecs == {1, 2}

VARIABLES mem, vec, nothrow_move, copy_constructible, last, pushed
vars == <<mem, vec, nothrow_move, copy_constructible, last, pushed>>

\* RawMemory() = default: buffer_ = nullptr, capacity_ = 0
EmptyRawMemory == [buffer_ |-> NullBuf, capacity_ |-> 0]

\* Vector() = default: data_ empty, size_ = 0
EmptyVector == [exists |-> TRUE, data_ |-> EmptyRawMemory, size_ |-> 0]

\* a Vector object whose lifetime has not begun or has ended
NoVector == [exists |-> FALSE, data_ |-> EmptyRawMemory, size_ |-> 0]

\* ---- worlds and fault injection -----------------------------------------
\* cd0: the number of the step that is made to throw (0 for none);
\* ub: the call used (read, assigned, moved from or destroyed) a slot that
\* holds no live object; leak: the call constructed over a live object or
\* released a buffer that still held one
World(cd, g) ==
    [mem |-> mem, vec |-> vec, new_data |-> EmptyRawMemory, obj |-> NoVector,
     cd |-> cd, cd0 |-> cd, thrown |-> FALSE, ncopy |-> 0, g |-> g, ub |-> FALSE,
     leak |-> FALSE, retbuf |-> NullBuf, retidx |-> 0, branch |-> "none"]

Fails(w) == w.cd = 1

Tick(w) == [w EXCEPT !.cd = IF @ > 0 THEN @ - 1 ELSE 0]

Throw(w) == [w EXCEPT !.cd = 0, !.thrown = TRUE]

\* ---- RawMemory ----------------------------------------------------------
FreeId(m) == CHOOSE i \in BufIds : m[i] = <<>> /\ \A j \in BufIds : m[j] = <<>> => i <= j

\* static T* Allocate(size_t n), as used by RawMemory(size_t capacity):
\* the result is left in w.new_data
Allocate(w, n) ==
    IF n = 0 THEN [w EXCEPT !.new_data = EmptyRawMemory]
    ELSE IF Fails(w) THEN Throw(w)
    ELSE LET id == FreeId(w.mem)
         IN [Tick(w) EXCEPT !.mem[id] = [i \in 1..n |-> Raw],
                            !.new_data = [buffer_ |-> id, capacity_ |-> n]]

\* static void Deallocate(T* buf) noexcept: operator delete, no destructor runs
Deallocate(w, buf) ==
    IF buf = NullBuf THEN w
    ELSE [w EXCEPT !.mem[buf] = <<>>,
                   !.leak = @ \/ \E k \in DOMAIN w.mem[buf] : w.mem[buf][k] # Raw]

\* ---- operations of the element type T on slots (index from 0) -----------
Cell(w, buf, i) == w.mem[buf][i + 1]

\* the value read from the object in a slot
Val(w, buf, i) == IF Cell(w, buf, i) = Raw THEN w.g ELSE Cell(w, buf, i)

\* the call uses the object in slot i as a live object
Use(w, buf, i) == IF Cell(w, buf, i) = Raw THEN [w EXCEPT !.ub = TRUE] ELSE w

\* placement new stores a new object in slot i
Put(w, buf, i, v) ==
    [w EXCEPT !.mem[buf][i + 1] = v, !.leak = @ \/ Cell(w, buf, i) # Raw]

\* new (buf + i) T(args...): the arguments stand for the value v
ConstructAt(w, buf, i, v) ==
    IF Fails(w) THEN Throw(w) ELSE Put(Tick(w), buf, i, v)

\* new (dst + j) T(src[i]): copy construction
CopyConstruct(w, dst, j, src, i) ==
    IF Fails(w) THEN Throw(w)
    ELSE [Put(Use(Tick(w), src, i), dst, j, Val(w, src, i)) EXCEPT !.ncopy = @ + 1]

\* new (dst + j) T(std::move(src[i])) once it is known not to throw: the
\* source is left in its moved-from state
MoveConstructNoFail(w, dst, j, src, i) ==
    LET w1 == Put(Use(w, src, i), dst, j, Val(w, src, i))
    IN [w1 EXCEPT !.mem[src][i + 1] = IF Cell(w, src, i) = Raw THEN Raw ELSE Moved]

\* move construction, which cannot throw when T is nothrow move constructible
MoveConstruct(w, dst, j, src, i) ==
    IF nothrow_move THEN MoveConstructNoFail(w, dst, j, src, i)
    ELSE IF Fails(w) THEN Throw(w)
    ELSE MoveConstructNoFail(Tick(w), dst, j, src, i)

\* dst[j] = src[i]: copy assignment
CopyAssign(w, dst, j, src, i) ==
    IF Fails(w) THEN Throw(w)
    ELSE [Use(Use(Tick(w), src, i), dst, j) EXCEPT
              !.mem[dst][j + 1] = IF @ = Raw THEN Raw ELSE Val(w, src, i),
              !.ncopy = @ + 1]

\* buf[j] = std::move(buf[i]): move assignment within one buffer
MoveAssign(w, buf, j, i) ==
    IF Fails(w) THEN Throw(w)
    ELSE LET v == Val(w, buf, i)
             m == [w.mem[buf] EXCEPT ![i + 1] = IF @ = Raw THEN Raw ELSE Moved]
         IN [Use(Use(Tick(w), buf, i), buf, j) EXCEPT
                 !.mem[buf] = [m EXCEPT ![j + 1] = IF @ = Raw THEN Raw ELSE v]]

\* *(buf + j) = std::move(new_s) for a local new_s holding v
MoveAssignLocal(w, buf, j, v) ==
    IF Fails(w) THEN Throw(w)
    ELSE [Use(Tick(w), buf, j) EXCEPT
              !.mem[buf][j + 1] = IF @ = Raw THEN Raw ELSE v]

\* std::destroy_at(buf + i)
destroy_at(w, buf, i) == [Use(w, buf, i) EXCEPT !.mem[buf][i + 1] = Raw]

\* std::destroy_n(buf + off, n)
destroy_n(w, buf, off, n) ==
    IF n = 0 THEN w
    ELSE [w EXCEPT !.mem[buf] =
              [k \in DOMAIN @ |-> IF k > off /\ k <= off + n THEN Raw ELSE @[k]],
                   !.ub = @ \/ \E k \in (off + 1)..(off + n) : w.mem[buf][k] = Raw]

\* ---- standard algorithms, element by element ----------------------------
\* std::uninitialized_copy_n(src + so, n, dst + do): on a throw the copies
\* made so far are destroyed and the exception propagates
RECURSIVE uninitialized_copy_loop(_, _, _, _, _, _, _)
uninitialized_copy_loop(w, src, so, n, dst, do, k) ==
    IF k = n THEN w
    ELSE LET w1 == CopyConstruct(w, dst, do + k, src, so + k)
         IN IF w1.thrown THEN destroy_n(w1, dst, do, k)
            ELSE uninitialized_copy_loop(w1, src, so, n, dst, do, k + 1)

uninitialized_copy_n(w, src, so, n, dst, do) ==
    uninitialized_copy_loop(w, src, so, n, dst, do, 0)

\* std::uninitialized_move_n(src + so, n, dst + do)
RECURSIVE uninitialized_move_loop(_, _, _, _, _, _, _)
uninitialized_move_loop(w, src, so, n, dst, do, k) ==
    IF k = n THEN w
    ELSE LET w1 == MoveConstruct(w, dst, do + k, src, so + k)
         IN IF w1.thrown THEN destroy_n(w1, dst, do, k)
            ELSE uninitialized_move_loop(w1, src, so, n, dst, do, k + 1)

uninitialized_move_n(w, src, so, n, dst, do) ==
    uninitialized_move_loop(w, src, so, n, dst, do, 0)

\* std::uninitialized_value_construct_n(buf + off, n)
RECURSIVE uninitialized_value_construct_loop(_, _, _, _, _)
uninitialized_value_construct_loop(w, buf, off, n, k) ==
    IF k = n THEN w
    ELSE LET w1 == ConstructAt(w, buf, off + k, DefaultValue)
         IN IF w1.thrown THEN destroy_n(w1, buf, off, k)
            ELSE uninitialized_value_construct_loop(w1, buf, off, n, k + 1)

uninitialized_value_construct_n(w, buf, off, n) ==
    uninitialized_value_construct_loop(w, buf, off, n, 0)

\* std::copy(src, src + n, dst): copy assignment front to back, no rollback
RECURSIVE std_copy_loop(_, _, _, _, _)
std_copy_loop(w, src, n, dst, k) ==
    IF k = n THEN w
    ELSE LET w1 == CopyAssign(w, dst, k, src, k)
         IN IF w1.thrown THEN w1 ELSE std_copy_loop(w1, src, n, dst, k + 1)

std_copy(w, src, n, dst) == std_copy_loop(w, src, n, dst, 0)

\* a shift toward the end that starts at the front
RECURSIVE move_backward_fromFront(_, _, _, _)
move_backward_fromFront(w, buf, first, lst) ==
    IF lst <= first THEN w
    ELSE LET w1 == MoveAssign(w, buf, first + 1, first)
         IN IF w1.thrown THEN w1 ELSE move_backward_fromFront(w1, buf, first + 1, lst)

\* std::move_backward(buf + first, buf + lst, buf + lst + 1): move assignment
\* from the back, slot k goes to slot k + 1 for k = lst - 1 down to first
RECURSIVE move_backward(_, _, _, _)
move_backward(w, buf, first, lst) ==
    IF lst <= first THEN w
    ELSE LET w1 == MoveAssign(w, buf, lst, lst - 1)
         IN IF w1.thrown THEN w1 ELSE move_backward(w1, buf, first, lst - 1)

\* a shift toward the front that stops one element short
RECURSIVE std_move_short(_, _, _, _)
std_move_short(w, buf, first, lst) ==
    IF first >= lst - 1 THEN w
    ELSE LET w1 == MoveAssign(w, buf, first - 1, first)
         IN IF w1.thrown THEN w1 ELSE std_move_short(w1, buf, first + 1, lst)

\* std::move(buf + first, buf + lst, buf + first - 1): move assignment from
\* the front, slot k goes to slot k - 1 for k = first up to lst - 1
RECURSIVE std_move(_, _, _, _)
std_move(w, buf, first, lst) ==
    IF first >= lst THEN w
    ELSE LET w1 == MoveAssign(w, buf, first - 1, first)
         IN IF w1.thrown THEN w1 ELSE std_move(w1, buf, first + 1, lst)

\* ---- Vector: private helper ----------------------------------------------
\* if constexpr (is_nothrow_move_constructible_v<T> || !is_copy_constructible_v<T>)
UsesMove == nothrow_move \/ ~copy_constructible

\* a relocation that moves whatever the element type is
CopyOrMoveElements_alwaysMove(w, old, oo, new, no, n) ==
    LET w1 == uninitialized_move_n(w, old, oo, n, new, no)
    IN IF w1.thrown THEN w1 ELSE destroy_n(w1, old, oo, n)

\* void CopyOrMoveElements(old_memory, new_memory, size)
CopyOrMoveElements(w, old, oo, new, no, n) ==
    LET w1 == IF UsesMove THEN uninitialized_move_n(w, old, oo, n, new, no)
              ELSE uninitialized_copy_n(w, old, oo, n, new, no)
    IN IF w1.thrown THEN w1 ELSE destroy_n(w1, old, oo, n)

\* void RawMemory::Swap / data_.Swap(new_data) followed by ~RawMemory() of
\* the local new_data, which now owns the old buffer
CommitNewData(w, t) ==
    LET old == w.vec[t].data_
    IN Deallocate([w EXCEPT !.vec[t].data_ = w.new_data, !.new_data = old],
                  old.buffer_)

\* leaving the scope of the local new_data by an exception: ~RawMemory()
DropNewData(w) ==
    Deallocate([w EXCEPT !.new_data = EmptyRawMemory], w.new_data.buffer_)

\* ---- Vector: operations as world transformers ---------------------------
\* ~Vector() of the vector record v, then ~RawMemory() of its data_
DestroyVector(w, v) ==
    Deallocate(destroy_n(w, v.data_.buffer_, 0, v.size_), v.data_.buffer_)

\* explicit Vector(size_t size): the new object is left in w.obj
SizedConstruct(w, n) ==
    LET w1 == Allocate(w, n)
        w2 == uninitialized_value_construct_n(w1, w1.new_data.buffer_, 0, n)
    IN IF w1.thrown THEN w1
       ELSE IF w2.thrown THEN DropNewData(w2)
       ELSE [w2 EXCEPT !.obj = [exists |-> TRUE, data_ |-> w2.new_data, size_ |-> n],
                       !.new_data = EmptyRawMemory]

\* a copy constructor that adopts the buffer of its source
VectorCopy_shallow(w, o) ==
    [w EXCEPT !.obj = [exists |-> TRUE, data_ |-> w.vec[o].data_,
                       size_ |-> w.vec[o].size_]]

\* a copy constructor that keeps the buffer it could not fill
VectorCopy_keepBuffer(w, o) ==
    LET n == w.vec[o].size_
        w1 == Allocate(w, n)
        w2 == uninitialized_copy_n(w1, w.vec[o].data_.buffer_, 0, n,
                                   w1.new_data.buffer_, 0)
    IN IF w1.thrown THEN w1
       ELSE IF w2.thrown THEN w2
       ELSE [w2 EXCEPT !.obj = [exists |-> TRUE, data_ |-> w2.new_data, size_ |-> n],
                       !.new_data = EmptyRawMemory]

\* Vector(const Vector& other): the new object is left in w.obj
VectorCopy(w, o) ==
    LET n == w.vec[o].size_
        w1 == Allocate(w, n)
        w2 == uninitialized_copy_n(w1, w.vec[o].data_.buffer_, 0, n,
                                   w1.new_data.buffer_, 0)
    IN IF w1.thrown THEN w1
       ELSE IF w2.thrown THEN DropNewData(w2)
       ELSE [w2 EXCEPT !.obj = [exists |-> TRUE, data_ |-> w2.new_data, size_ |-> n],
                       !.new_data = EmptyRawMemory]

\* void Swap(Vector& other) noexcept
Swap(w, t, o) ==
    [w EXCEPT !.vec[t].data_ = w.vec[o].data_, !.vec[t].size_ = w.vec[o].size_,
              !.vec[o].data_ = w.vec[t].data_, !.vec[o].size_ = w.vec[t].size_]

\* Vector(Vector&& other) noexcept: members default-initialised, then Swap
VectorMove(w, t, o) == Swap([w EXCEPT !.vec[t] = EmptyVector], t, o)

\* a Reserve that grows to at least twice the capacity
Reserve_atLeastDouble(w, t, new_capacity) ==
    LET d == w.vec[t].data_
        nc == IF new_capacity < 2 * d.capacity_ THEN 2 * d.capacity_ ELSE new_capacity
        w1 == Allocate(w, nc)
        w2 == CopyOrMoveElements(w1, d.buffer_, 0, w1.new_data.buffer_, 0,
                                 w.vec[t].size_)
    IN IF new_capacity <= d.capacity_ THEN [w EXCEPT !.branch = "noop"]
       ELSE IF w1.thrown THEN [w1 EXCEPT !.branch = "grow"]
       ELSE IF w2.thrown THEN [DropNewData(w2) EXCEPT !.branch = "grow"]
       ELSE [CommitNewData(w2, t) EXCEPT !.branch = "grow"]

\* void Reserve(size_t new_capacity)
Reserve(w, t, new_capacity) ==
    LET d == w.vec[t].data_
        w1 == Allocate(w, new_capacity)
        w2 == CopyOrMoveElements(w1, d.buffer_, 0, w1.new_data.buffer_, 0,
                                 w.vec[t].size_)
    IN IF new_capacity <= d.capacity_ THEN [w EXCEPT !.branch = "noop"]
       ELSE IF w1.thrown THEN [w1 EXCEPT !.branch = "grow"]
       ELSE IF w2.thrown THEN [DropNewData(w2) EXCEPT !.branch = "grow"]
       ELSE [CommitNewData(w2, t) EXCEPT !.branch = "grow"]

\* an assignment that destroys the elements of *this before it copies
CopyAndSwap_destroyFirst(w, t, o) ==
    LET old == w.vec[t]
        w0 == [destroy_n(w, old.data_.buffer_, 0, old.size_) EXCEPT !.vec[t].size_ = 0]
        w1 == VectorCopy(w0, o)
        w2 == [w1 EXCEPT !.vec[t].data_ = w1.obj.data_,
                         !.vec[t].size_ = w1.obj.size_,
                         !.obj = NoVector]
    IN IF w1.thrown THEN w1 ELSE DestroyVector(w2, w0.vec[t])

\* Vector rhs_copy(rhs); Swap(rhs_copy); and ~Vector() of rhs_copy, which
\* holds the former contents of *this
CopyAndSwap(w, t, o) ==
    LET w1 == VectorCopy(w, o)
        w2 == [w1 EXCEPT !.vec[t].data_ = w1.obj.data_,
                         !.vec[t].size_ = w1.obj.size_,
                         !.obj = NoVector]
    IN IF w1.thrown THEN w1 ELSE DestroyVector(w2, w.vec[t])

\* a copy assignment that, when it shrinks, does not destroy the tail
OpCopyAssign_keepTail(w, t, o) ==
    LET lhs == w.vec[t]
        rhs == w.vec[o]
        lb == lhs.data_.buffer_
        rb == rhs.data_.buffer_
    IN IF t = o THEN [w EXCEPT !.branch = "self"]
       ELSE IF rhs.size_ > lhs.data_.capacity_ THEN
           CopyAndSwap([w EXCEPT !.branch = "copy_and_swap"], t, o)
       ELSE IF rhs.size_ < lhs.size_ THEN
           LET w1 == std_copy([w EXCEPT !.branch = "shrink"], rb, rhs.size_, lb)
           IN IF w1.thrown THEN w1 ELSE [w1 EXCEPT !.vec[t].size_ = rhs.size_]
       ELSE
           LET w1 == std_copy([w EXCEPT !.branch = "extend"], rb, lhs.size_, lb)
               w2 == uninitialized_copy_n(w1, rb, lhs.size_, rhs.size_ - lhs.size_,
                                          lb, lhs.size_)
           IN IF w1.thrown THEN w1
              ELSE IF w2.thrown THEN w2
              ELSE [w2 EXCEPT !.vec[t].size_ = rhs.size_]

\* Vector& operator=(const Vector& rhs)
OpCopyAssign(w, t, o) ==
    LET lhs == w.vec[t]
        rhs == w.vec[o]
        lb == lhs.data_.buffer_
        rb == rhs.data_.buffer_
    IN IF t = o THEN [w EXCEPT !.branch = "self"]
       ELSE IF rhs.size_ > lhs.data_.capacity_ THEN
           CopyAndSwap([w EXCEPT !.branch = "copy_and_swap"], t, o)
       ELSE IF rhs.size_ < lhs.size_ THEN
           LET w1 == std_copy([w EXCEPT !.branch = "shrink"], rb, rhs.size_, lb)
               w2 == destroy_n(w1, lb, rhs.size_, lhs.size_ - rhs.size_)
           IN IF w1.thrown THEN w1 ELSE [w2 EXCEPT !.vec[t].size_ = rhs.size_]
       ELSE
           LET w1 == std_copy([w EXCEPT !.branch = "extend"], rb, lhs.size_, lb)
               w2 == uninitialized_copy_n(w1, rb, lhs.size_, rhs.size_ - lhs.size_,
                                          lb, lhs.size_)
           IN IF w1.thrown THEN w1
              ELSE IF w2.thrown THEN w2
              ELSE [w2 EXCEPT !.vec[t].size_ = rhs.size_]

\* a move assignment that destroys the elements of *this, releases its
\* buffer, adopts the buffer of rhs and leaves rhs empty
OpMoveAssign_release(w, t, o) ==
    IF t = o THEN w
    ELSE LET w1 == DestroyVector(w, w.vec[t])
         IN [w1 EXCEPT !.vec[t].data_ = w.vec[o].data_,
                       !.vec[t].size_ = w.vec[o].size_,
                       !.vec[o].data_ = EmptyRawMemory,
                       !.vec[o].size_ = 0]

\* a move assignment that copies
OpMoveAssign_copy(w, t, o) == OpCopyAssign(w, t, o)

\* Vector& operator=(Vector&& rhs) noexcept
OpMoveAssign(w, t, o) == IF t # o THEN Swap(w, t, o) ELSE w

\* a Resize that, when it shrinks, destroys the first elements
Resize_destroyHead(w, t, new_size) ==
    LET sz == w.vec[t].size_
        w1 == Reserve(w, t, new_size)
        w2 == uninitialized_value_construct_n(w1, w1.vec[t].data_.buffer_, sz,
                                              new_size - sz)
    IN IF new_size < sz
       THEN [destroy_n(w, w.vec[t].data_.buffer_, 0, sz - new_size)
                EXCEPT !.vec[t].size_ = new_size, !.branch = "shrink"]
       ELSE IF w1.thrown THEN w1
       ELSE IF w2.thrown THEN w2
       ELSE [w2 EXCEPT !.vec[t].size_ = new_size]

\* void Resize(size_t new_size)
Resize(w, t, new_size) ==
    LET sz == w.vec[t].size_
        w1 == Reserve(w, t, new_size)
        w2 == uninitialized_value_construct_n(w1, w1.vec[t].data_.buffer_, sz,
                                              new_size - sz)
    IN IF new_size < sz
       THEN [destroy_n(w, w.vec[t].data_.buffer_, new_size, sz - new_size)
                EXCEPT !.vec[t].size_ = new_size, !.branch = "shrink"]
       ELSE IF w1.thrown THEN w1
       ELSE IF w2.thrown THEN w2
       ELSE [w2 EXCEPT !.vec[t].size_ = new_size]

\* a PopBack that forgets the last element without destroying it
PopBack_keepObject(w, t) ==
    LET sz == w.vec[t].size_
    IN IF sz > 0 THEN [w EXCEPT !.vec[t].size_ = sz - 1] ELSE w

\* void PopBack()
PopBack(w, t) ==
    LET sz == w.vec[t].size_
    IN IF sz > 0
       THEN destroy_at([w EXCEPT !.vec[t].size_ = sz - 1],
                       w.vec[t].data_.buffer_, sz - 1)
       ELSE w

\* a growth by one slot
NewCapacity_plusOne(sz) == sz + 1

\* size_t new_capacity = (size_ == 0) ? 1 : (size_ * 2)
NewCapacity(sz) == IF sz = 0 THEN 1 ELSE sz * 2

\* iterator Emplace(const_iterator pos, Args&&... args): pos is begin() +
\* new_pos and the arguments construct the value v
Emplace(w, t, new_pos, v) ==
    LET d == w.vec[t].data_
        sz == w.vec[t].size_
        ob == d.buffer_
    IN IF sz >= d.capacity_ THEN
           LET new_capacity == NewCapacity(sz)
               w1 == Allocate([w EXCEPT !.branch = "realloc"], new_capacity)
               nb == w1.new_data.buffer_
               w2 == ConstructAt(w1, nb, new_pos, v)
               w3 == CopyOrMoveElements(w2, ob, 0, nb, 0, new_pos)
               w4 == CopyOrMoveElements(w3, ob, new_pos, nb, new_pos + 1,
                                        sz - new_pos)
           IN IF w1.thrown THEN w1
              ELSE IF w2.thrown THEN DropNewData(w2)
              ELSE IF w3.thrown THEN DropNewData(destroy_at(w3, nb, new_pos))
              ELSE IF w4.thrown THEN DropNewData(destroy_at(w4, nb, new_pos))
              ELSE LET w5 == CommitNewData(w4, t)
                   IN [w5 EXCEPT !.vec[t].size_ = sz + 1,
                                 !.retbuf = w5.vec[t].data_.buffer_,
                                 !.retidx = new_pos]
       ELSE IF new_pos # sz THEN
           \* T new_s(args); new (end()) T(move(back)); move_backward; assign
           LET w1 == [w EXCEPT !.branch = "shift"]
               w2 == IF Fails(w1) THEN Throw(w1) ELSE Tick(w1)
               w3 == MoveConstruct(w2, ob, sz, ob, sz - 1)
               w4 == move_backward(w3, ob, new_pos, sz - 1)
               w5 == MoveAssignLocal(w4, ob, new_pos, v)
           IN IF w2.thrown THEN w2
              ELSE IF w3.thrown THEN w3
              ELSE IF w4.thrown THEN w4
              ELSE IF w5.thrown THEN w5
              ELSE [w5 EXCEPT !.vec[t].size_ = sz + 1,
                              !.retbuf = ob, !.retidx = new_pos]
       ELSE
           LET w1 == ConstructAt([w EXCEPT !.branch = "append"], ob, sz, v)
           IN IF w1.thrown THEN w1
              ELSE [w1 EXCEPT !.vec[t].size_ = sz + 1,
                              !.retbuf = ob, !.retidx = new_pos]

\* an Emplace of a reference to element i that, in the shifting branch,
\* reads the element only when it assigns to the vacated slot
EmplaceFrom_lateRead(w, t, new_pos, i) ==
    LET d == w.vec[t].data_
        sz == w.vec[t].size_
        ob == d.buffer_
    IN IF sz >= d.capacity_ THEN
           LET new_capacity == NewCapacity(sz)
               w1 == Allocate([w EXCEPT !.branch = "realloc"], new_capacity)
               nb == w1.new_data.buffer_
               w2 == CopyConstruct(w1, nb, new_pos, ob, i)
               w3 == CopyOrMoveElements(w2, ob, 0, nb, 0, new_pos)
               w4 == CopyOrMoveElements(w3, ob, new_pos, nb, new_pos + 1,
                                        sz - new_pos)
           IN IF w1.thrown THEN w1
              ELSE IF w2.thrown THEN DropNewData(w2)
              ELSE IF w3.thrown THEN DropNewData(destroy_at(w3, nb, new_pos))
              ELSE IF w4.thrown THEN DropNewData(destroy_at(w4, nb, new_pos))
              ELSE LET w5 == CommitNewData(w4, t)
                   IN [w5 EXCEPT !.vec[t].size_ = sz + 1,
                                 !.retbuf = w5.vec[t].data_.buffer_,
                                 !.retidx = new_pos]
       ELSE IF new_pos # sz THEN
           LET w1 == [w EXCEPT !.branch = "shift"]
               w3 == MoveConstruct(w1, ob, sz, ob, sz - 1)
               w4 == move_backward(w3, ob, new_pos, sz - 1)
               w5 == CopyAssign(w4, ob, new_pos, ob, i)
           IN IF w3.thrown THEN w3
              ELSE IF w4.thrown THEN w4
              ELSE IF w5.thrown THEN w5
              ELSE [w5 EXCEPT !.vec[t].size_ = sz + 1,
                              !.retbuf = ob, !.retidx = new_pos]
       ELSE
           LET w1 == CopyConstruct([w EXCEPT !.branch = "append"], ob, sz, ob, i)
           IN IF w1.thrown THEN w1
              ELSE [w1 EXCEPT !.vec[t].size_ = sz + 1,
                              !.retbuf = ob, !.retidx = new_pos]

\* Emplace(pos, value) as Insert(pos, const T& value) calls it with value a
\* reference to element i of *this: the element is read where the code
\* constructs a T from the argument, into the new buffer when it
\* reallocates, into the local new_s when it shifts, into the slot end()
\* when it appends
EmplaceFrom(w, t, new_pos, i) ==
    LET d == w.vec[t].data_
        sz == w.vec[t].size_
        ob == d.buffer_
    IN IF sz >= d.capacity_ THEN
           LET new_capacity == NewCapacity(sz)
               w1 == Allocate([w EXCEPT !.branch = "realloc"], new_capacity)
               nb == w1.new_data.buffer_
               w2 == CopyConstruct(w1, nb, new_pos, ob, i)
               w3 == CopyOrMoveElements(w2, ob, 0, nb, 0, new_pos)
               w4 == CopyOrMoveElements(w3, ob, new_pos, nb, new_pos + 1,
                                        sz - new_pos)
           IN IF w1.thrown THEN w1
              ELSE IF w2.thrown THEN DropNewData(w2)
              ELSE IF w3.thrown THEN DropNewData(destroy_at(w3, nb, new_pos))
              ELSE IF w4.thrown THEN DropNewData(destroy_at(w4, nb, new_pos))
              ELSE LET w5 == CommitNewData(w4, t)
                   IN [w5 EXCEPT !.vec[t].size_ = sz + 1,
                                 !.retbuf = w5.vec[t].data_.buffer_,
                                 !.retidx = new_pos]
       ELSE IF new_pos # sz THEN
           \* T new_s(value); new (end()) T(move(back)); move_backward; assign
           LET w1 == [w EXCEPT !.branch = "shift"]
               new_s == Val(w1, ob, i)
               w2 == IF Fails(w1) THEN Throw(w1)
                     ELSE [Use(Tick(w1), ob, i) EXCEPT !.ncopy = @ + 1]
               w3 == MoveConstruct(w2, ob, sz, ob, sz - 1)
               w4 == move_backward(w3, ob, new_pos, sz - 1)
               w5 == MoveAssignLocal(w4, ob, new_pos, new_s)
           IN IF w2.thrown THEN w2
              ELSE IF w3.thrown THEN w3
              ELSE IF w4.thrown THEN w4
              ELSE IF w5.thrown THEN w5
              ELSE [w5 EXCEPT !.vec[t].size_ = sz + 1,
                              !.retbuf = ob, !.retidx = new_pos]
       ELSE
           LET w1 == CopyConstruct([w EXCEPT !.branch = "append"], ob, sz, ob, i)
           IN IF w1.thrown THEN w1
              ELSE [w1 EXCEPT !.vec[t].size_ = sz + 1,
                              !.retbuf = ob, !.retidx = new_pos]

\* iterator Erase(const_iterator pos): pos is begin() + new_pos
Erase(w, t, new_pos) ==
    LET ob == w.vec[t].data_.buffer_
        w1 == std_move(w, ob, new_pos + 1, w.vec[t].size_)
    IN IF w1.thrown THEN w1
       ELSE [PopBack(w1, t) EXCEPT !.retbuf = ob, !.retidx = new_pos]

\* (*this)[index] = v through T& operator[](size_t index): an assignment to
\* the element, which may throw
IndexAssign(w, t, index, v) ==
    MoveAssignLocal(w, w.vec[t].data_.buffer_, index, v)

\* ---- the state machine --------------------------------------------------
\* the element type T is fixed for a run: its two traits are chosen once;
\* pushed is the history of the values PushBack has appended
Init ==
    /\ mem = [i \in BufIds |-> <<>>]
    /\ vec = [t \in Vecs |-> EmptyVector]
    /\ nothrow_move \in BOOLEAN
    /\ copy_constructible \in BOOLEAN
    /\ last = [op |-> "init", t |-> 0, o |-> 0, res |-> "ok", fail |-> 0,
               branch |-> "none", ncopy |-> 0, ub |-> FALSE, leak |-> FALSE]
    /\ pushed = <<>>

\* the slots the vectors of a world own, in all
TotalCapacity(w) == w.vec[1].data_.capacity_ + w.vec[2].data_.capacity_

\* addresses carry no meaning beyond identity: between calls the buffer of
\* vector t is named t
CanonMem(w) ==
    [i \in BufIds |->
        IF i \in Vecs /\ w.vec[i].data_.buffer_ # NullBuf
        THEN w.mem[w.vec[i].data_.buffer_] ELSE <<>>]

CanonVec(w) ==
    [t \in Vecs |->
        [w.vec[t] EXCEPT !.data_.buffer_ = IF @ = NullBuf THEN NullBuf ELSE t]]

\* the call op on vector t (with the other operand o, or 0) returns or throws, leaving the world w; a call
\* whose failure was not reached is the call without failure, and the heap
\* of the model holds MaxCap slots
Finish(w, op, t, o) ==
    /\ w.cd = 0
    /\ TotalCapacity(w) <= MaxCap
    /\ mem' = CanonMem(w)
    /\ vec' = CanonVec(w)
    /\ last' = [op |-> op, t |-> t, o |-> o,
                res |-> IF w.thrown THEN "throw" ELSE "ok",
                fail |-> IF w.thrown THEN w.cd0 ELSE 0,
                branch |-> w.branch, ncopy |-> w.ncopy, ub |-> w.ub, leak |-> w.leak]
    /\ UNCHANGED <<nothrow_move, copy_constructible>>

\* slot i of vector t holds no live object although i < size_
Dead(t) == {i \in 0..(vec[t].size_ - 1) : mem[vec[t].data_.buffer_][i + 1] = Raw}

\* what a read of a destroyed object may yield
Garbage == IF \E t \in Vecs : Dead(t) # {} THEN Values ELSE {DefaultValue}

\* the number of steps that may throw in a call that ran to its end in w
Steps(w) == w.cd0 - w.cd

\* the ways a call Op can end: it returns, or it throws at one of the steps
\* it has; a call that used a destroyed object ends in one way for each
\* value the read may yield
Outcomes(Op(_)) ==
    LET whole == Op(World(MaxFail + 1, DefaultValue))
        Run(cd) ==
            LET w == IF cd = 0 THEN [whole EXCEPT !.cd = 0, !.cd0 = 0]
                     ELSE Op(World(cd, DefaultValue))
            IN IF w.ub THEN {Op(World(cd, g)) : g \in Garbage} ELSE {w}
    IN UNION {Run(cd) : cd \in 0..Steps(whole)}

Exists(t) == vec[t].exists

DoDefaultConstruct(t) ==
    /\ ~Exists(t)
    /\ Finish([World(0, 1) EXCEPT !.vec[t] = EmptyVector], "Vector", t, 0)

DoSizedConstruct(t, n) ==
    /\ ~Exists(t)
    /\ \E w \in Outcomes(LAMBDA x : SizedConstruct(x, n)) :
          Finish(IF w.thrown THEN w
                 ELSE [w EXCEPT !.vec[t] = w.obj, !.obj = NoVector],
                 "VectorSized", t, 0)

DoCopyConstruct(t, o) ==
    /\ ~Exists(t) /\ Exists(o) /\ copy_constructible
    /\ \E w \in Outcomes(LAMBDA x : VectorCopy(x, o)) :
          Finish(IF w.thrown THEN w
                 ELSE [w EXCEPT !.vec[t] = w.obj, !.obj = NoVector],
                 "VectorCopy", t, o)

DoMoveConstruct(t, o) ==
    /\ ~Exists(t) /\ Exists(o)
    /\ Finish(VectorMove(World(0, 1), t, o), "VectorMove", t, o)

DoDestroy(t) ==
    /\ Exists(t)
    /\ Finish([DestroyVector(World(0, 1), vec[t]) EXCEPT !.vec[t] = NoVector],
              "~Vector", t, 0)

DoCopyAssign(t, o) ==
    /\ Exists(t) /\ Exists(o) /\ copy_constructible
    /\ \E w \in Outcomes(LAMBDA x : OpCopyAssign(x, t, o)) :
          Finish(w, "CopyAssign", t, o)

DoMoveAssign(t, o) ==
    /\ Exists(t) /\ Exists(o)
    /\ Finish(OpMoveAssign(World(0, 1), t, o), "MoveAssign", t, o)

DoSwap(t, o) ==
    /\ Exists(t) /\ Exists(o)
    /\ Finish(Swap(World(0, 1), t, o), "Swap", t, o)

DoReserve(t, n) ==
    /\ Exists(t)
    /\ \E w \in Outcomes(LAMBDA x : Reserve(x, t, n)) :
          Finish(w, "Reserve", t, 0)

DoResize(t, n) ==
    /\ Exists(t)
    /\ \E w \in Outcomes(LAMBDA x : Resize(x, t, n)) :
          Finish(w, "Resize", t, 0)

\* a PushBack that inserts at begin()
DoPushBack_front(t, v) ==
    /\ Exists(t)
    /\ \E w \in Outcomes(LAMBDA x : Emplace(x, t, 0, v)) :
          Finish(w, "PushBack", t, 0)

\* void PushBack(T1&& value): EmplaceBack(value), that is Emplace(end(), value)
DoPushBack(t, v) ==
    /\ Exists(t)
    /\ \E w \in Outcomes(LAMBDA x : Emplace(x, t, vec[t].size_, v)) :
          Finish(w, "PushBack", t, 0)

\* T& EmplaceBack(Args&&... args): Emplace(end(), args...)
DoEmplaceBack(t, v) ==
    /\ Exists(t)
    /\ \E w \in Outcomes(LAMBDA x : Emplace(x, t, vec[t].size_, v)) :
          Finish(w, "EmplaceBack", t, 0)

DoEmplace(t, pos, v) ==
    /\ Exists(t) /\ pos <= vec[t].size_
    /\ \E w \in Outcomes(LAMBDA x : Emplace(x, t, pos, v)) :
          Finish(w, "Emplace", t, 0)

\* iterator Insert(const_iterator pos, const T& value): Emplace(pos, value)
DoInsert(t, pos, v) ==
    /\ Exists(t) /\ pos <= vec[t].size_ /\ copy_constructible
    /\ \E w \in Outcomes(LAMBDA x : Emplace(x, t, pos, v)) :
          Finish(w, "Insert", t, 0)

\* iterator Insert(const_iterator pos, const T& value) with value = (*this)[i]
DoInsertFrom(t, pos, i) ==
    /\ Exists(t) /\ pos <= vec[t].size_ /\ i < vec[t].size_ /\ copy_constructible
    /\ \E w \in Outcomes(LAMBDA x : EmplaceFrom(x, t, pos, i)) :
          Finish(w, "InsertFrom", t, 0)

DoErase(t, pos) ==
    /\ Exists(t) /\ pos < vec[t].size_
    /\ \E w \in Outcomes(LAMBDA x : Erase(x, t, pos)) :
          Finish(w, "Erase", t, 0)

DoPopBack(t) ==
    /\ Exists(t)
    /\ Finish(PopBack(World(0, 1), t), "PopBack", t, 0)

DoIndexAssign(t, index, v) ==
    /\ Exists(t) /\ index < vec[t].size_
    /\ \E w \in Outcomes(LAMBDA x : IndexAssign(x, t, index, v)) :
          Finish(w, "IndexAssign", t, 0)

\* ---- specifications -----------------------------------------------------
\* runs of PushBack calls that return, on vector 1 from the
\* default-constructed array
DoPushBackLogged(v) ==
    /\ DoPushBack(1, v)
    /\ last'.res = "ok"
    /\ pushed' = Append(pushed, v)

NextPushBack == \E v \in Values : DoPushBackLogged(v)

SpecPushBack == Init /\ [][NextPushBack]_vars

\* runs of PushBack, EmplaceBack and Emplace on vector 1 from the
\* default-constructed array
NextGrow ==
    \/ \E v \in Values : DoPushBack(1, v) /\ UNCHANGED pushed
    \/ \E v \in Values : DoEmplaceBack(1, v) /\ UNCHANGED pushed
    \/ \E pos \in 0..MaxCap, v \in Values : DoEmplace(1, pos, v) /\ UNCHANGED pushed

SpecGrow == Init /\ [][NextGrow]_vars

\* runs of Emplace and Insert on vector 1 from the default-constructed array
NextInsert ==
    \/ \E pos \in 0..MaxCap, v \in Values : DoEmplace(1, pos, v) /\ UNCHANGED pushed
    \/ \E pos \in 0..MaxCap, v \in Values : DoInsert(1, pos, v) /\ UNCHANGED pushed

SpecInsert == Init /\ [][NextInsert]_vars

\* runs of the operations that change the capacity or remove elements
NextOne ==
    \/ \E n \in 0..MaxCap : DoReserve(1, n) /\ UNCHANGED pushed
    \/ \E n \in 0..MaxCap : DoResize(1, n) /\ UNCHANGED pushed
    \/ \E v \in Values : DoPushBack(1, v) /\ UNCHANGED pushed
    \/ \E pos \in 0..MaxCap : DoErase(1, pos) /\ UNCHANGED pushed
    \/ DoPopBack(1) /\ UNCHANGED pushed

SpecOne == Init /\ [][NextOne]_vars

\* runs of the operations that involve two arrays, which PushBack and
\* PopBack fill and empty
Next ==
    \E t \in Vecs :
        \/ DoDefaultConstruct(t) /\ UNCHANGED pushed
        \/ \E n \in 0..MaxCap : DoSizedConstruct(t, n) /\ UNCHANGED pushed
        \/ \E o \in Vecs \ {t} : DoCopyConstruct(t, o) /\ UNCHANGED pushed
        \/ \E o \in Vecs \ {t} : DoMoveConstruct(t, o) /\ UNCHANGED pushed
        \/ DoDestroy(t) /\ UNCHANGED pushed
        \/ \E o \in Vecs : DoCopyAssign(t, o) /\ UNCHANGED pushed
        \/ \E o \in Vecs : DoMoveAssign(t, o) /\ UNCHANGED pushed
        \/ \E o \in Vecs : DoSwap(t, o) /\ UNCHANGED pushed
        \/ \E v \in Values : DoPushBack(t, v) /\ UNCHANGED pushed
        \/ DoPopBack(t) /\ UNCHANGED pushed

Spec == Init /\ [][Next]_vars

\* runs of the operations that pass a buffer from one array to another;
\* PushBack and PopBack fill and empty vector 1
NextMove ==
    \/ \E t \in Vecs : DoDefaultConstruct(t) /\ UNCHANGED pushed
    \/ \E t \in Vecs : \E o \in Vecs \ {t} : DoMoveConstruct(t, o) /\ UNCHANGED pushed
    \/ \E t \in Vecs : DoDestroy(t) /\ UNCHANGED pushed
    \/ \E t \in Vecs, o \in Vecs : DoMoveAssign(t, o) /\ UNCHANGED pushed
    \/ \E t \in Vecs, o \in Vecs : DoSwap(t, o) /\ UNCHANGED pushed
    \/ \E v \in Values : DoPushBack(1, v) /\ UNCHANGED pushed
    \/ DoPopBack(1) /\ UNCHANGED pushed

SpecMove == Init /\ [][NextMove]_vars

\* runs of the operations that copy an array, for the element types that
\* can be copied; PushBack and PopBack fill and empty vector 1
InitCopyable == Init /\ copy_constructible

NextCopy ==
    \/ \E t \in Vecs : DoDefaultConstruct(t) /\ UNCHANGED pushed
    \/ \E t \in Vecs, n \in 0..MaxCap : DoSizedConstruct(t, n) /\ UNCHANGED pushed
    \/ \E t \in Vecs : \E o \in Vecs \ {t} : DoCopyConstruct(t, o) /\ UNCHANGED pushed
    \/ \E t \in Vecs : DoDestroy(t) /\ UNCHANGED pushed
    \/ \E t \in Vecs, o \in Vecs : DoCopyAssign(t, o) /\ UNCHANGED pushed
    \/ \E v \in Values : DoPushBack(1, v) /\ UNCHANGED pushed
    \/ DoPopBack(1) /\ UNCHANGED pushed

SpecCopy == InitCopyable /\ [][NextCopy]_vars

\* runs of calls that return, in which an array is copy constructed from
\* the other and vector 2, the copy or the source of the copy, is then
\* changed, for the element types that can be copied
Returns == last'.res = "ok" /\ UNCHANGED pushed

NextIndep ==
    \/ \E t \in Vecs : \E o \in Vecs \ {t} : DoCopyConstruct(t, o) /\ Returns
    \/ \E t \in Vecs : DoDestroy(t) /\ Returns
    \/ \E v \in Values : DoPushBack(2, v) /\ Returns
    \/ \E pos \in 0..MaxCap, v \in Values : DoInsert(2, pos, v) /\ Returns
    \/ \E pos \in 0..MaxCap : DoErase(2, pos) /\ Returns
    \/ \E n \in 0..MaxCap : DoResize(2, n) /\ Returns
    \/ DoPopBack(2) /\ Returns
    \/ \E i \in 0..MaxCap, v \in Values : DoIndexAssign(2, i, v) /\ Returns

SpecIndep == InitCopyable /\ [][NextIndep]_vars

\* runs of returning Insert calls whose value is an element of the array
\* itself, on vector 1, which PushBack, PopBack and Reserve fill, empty and
\* enlarge, for the element types that can be copied
NextAlias ==
    \/ \E v \in Values : DoPushBack(1, v) /\ Returns
    \/ DoPopBack(1) /\ Returns
    \/ DoReserve(1, MaxCap) /\ Returns
    \/ \E pos \in 0..MaxCap, i \in 0..MaxCap : DoInsertFrom(1, pos, i) /\ Returns

SpecAlias == InitCopyable /\ [][NextAlias]_vars

\* ---- the observable array -----------------------------------------------
\* the slots [0, size_) of vector t, in the state and in a world
ContentsIn(m, vc, t) == [i \in 1..vc[t].size_ |-> m[vc[t].data_.buffer_][i]]

Contents(t) == ContentsIn(mem, vec, t)

WContents(w, t) == ContentsIn(w.mem, w.vec, t)

Size(t) == vec[t].size_

Capacity(t) == vec[t].data_.capacity_

\* the same, after the step
PostContents(t) == ContentsIn(mem', vec', t)

PostSize(t) == vec'[t].size_

PostCapacity(t) == vec'[t].data_.capacity_

\* every slot of [0, size_) holds a live object
LiveRange(t) == Exists(t) /\ Dead(t) = {}

\* 0 <= size_ <= capacity, [0, size_) live, [size_, capacity) raw
WellFormed(t) ==
    /\ 0 <= Size(t) /\ Size(t) <= Capacity(t)
    /\ (vec[t].data_.buffer_ = NullBuf) = (Capacity(t) = 0)
    /\ Capacity(t) > 0 => Len(mem[vec[t].data_.buffer_]) = Capacity(t)
    /\ \A i \in 1..Capacity(t) :
          (mem[vec[t].data_.buffer_][i] # Raw) = (i <= Size(t))

\* the world w leaves vector t as the state has it: same buffer, size,
\* capacity and slots
SameArray(w, t) ==
    /\ w.vec[t] = vec[t]
    /\ vec[t].data_.buffer_ # NullBuf =>
          w.mem[vec[t].data_.buffer_] = mem[vec[t].data_.buffer_]

\* the step leaves vector t as it was: same buffer, size, capacity and slots
Unchanged(t) ==
    /\ vec'[t] = vec[t]
    /\ vec[t].data_.buffer_ # NullBuf =>
          mem'[vec[t].data_.buffer_] = mem[vec[t].data_.buffer_]

\* s with v inserted before index p (from 0), and s without index p
InsertAt(s, p, v) == SubSeq(s, 1, p) \o <<v>> \o SubSeq(s, p + 1, Len(s))

RemoveAt(s, p) == SubSeq(s, 1, p) \o SubSeq(s, p + 2, Len(s))

Failures == 1..MaxFail

\* ---- C1 -----------------------------------------------------------------
\* C1: a reallocating Emplace (Size() = Capacity()) on an array of a copy
\* constructible element type that throws, at the allocation, at the
\* construction of the new element or at the relocation of an element of the
\* prefix or of the suffix, leaves the array with the same size, capacity and
\* slots, every slot of [0, size) live with its value.
C1_ReallocEmplaceStrong ==
    [][(/\ last'.op \in {"PushBack", "EmplaceBack", "Emplace", "Insert"}
        /\ last'.branch = "realloc" /\ last'.res = "throw"
        /\ copy_constructible /\ WellFormed(1))
       => /\ Size(1) = Capacity(1)
          /\ Unchanged(1)
          /\ WellFormed(1)']_vars

\* ---- C2 -----------------------------------------------------------------
\* C2: Reserve(newCap) with newCap > Capacity() that throws at the allocation
\* or at the copy of the k-th element leaves size, capacity and every slot of
\* the array as they were, and the heap with them.
C2_ReserveStrong ==
    \A n \in 0..(MaxCap + 1), cd \in Failures, g \in Garbage :
        LET w == Reserve(World(cd, g), 1, n)
        IN (LiveRange(1) /\ n > Capacity(1) /\ w.thrown /\ (cd = 1 \/ ~UsesMove))
              => /\ SameArray(w, 1)
                 /\ w.mem = mem
                 /\ w.vec = vec

\* a Reserve that grows has thrown at the copy of the second element or later
C2_Witness ==
    /\ last.op = "Reserve" /\ last.res = "throw" /\ last.branch = "grow"
    /\ last.fail >= 3 /\ ~UsesMove
    /\ Size(1) >= 2 /\ WellFormed(1)

\* ---- C5 -----------------------------------------------------------------
\* C5: Emplace/Insert of v at position p <= size on contents s that returns
\* yields s[0..p) ++ [v] ++ s[p..size), size + 1 elements, and returns index
\* p of the current buffer, in the reallocating, shifting and appending
\* branches alike.
C5_EmplaceInserts ==
    \A pos \in 0..Size(1), v \in Values :
        LET w == Emplace(World(0, DefaultValue), 1, pos, v)
        IN LiveRange(1) =>
              /\ ~w.thrown
              /\ w.branch = IF Size(1) >= Capacity(1) THEN "realloc"
                            ELSE IF pos # Size(1) THEN "shift" ELSE "append"
              /\ WContents(w, 1) = InsertAt(Contents(1), pos, v)
              /\ w.vec[1].size_ = Size(1) + 1
              /\ w.retidx = pos
              /\ w.retbuf = w.vec[1].data_.buffer_

\* an Emplace has shifted at least two elements and returned
C5_Witness ==
    /\ last.op \in {"Emplace", "Insert"} /\ last.res = "ok"
    /\ last.branch = "shift"
    /\ Size(1) >= 4 /\ LiveRange(1)
    /\ \E i \in 1..Size(1) : Contents(1)[i] # Contents(1)[1]

\* ---- C6 -----------------------------------------------------------------
\* C6: Erase at position p < size on contents s that returns yields
\* s[0..p) ++ s(p..size): size - 1 elements, the same capacity and buffer,
\* the old last slot raw and no other slot made raw, and returns index p.
C6_EraseRemoves ==
    \A pos \in 0..(Size(1) - 1) :
        LET w == Erase(World(0, DefaultValue), 1, pos)
            b == vec[1].data_.buffer_
        IN LiveRange(1) =>
              /\ ~w.thrown
              /\ WContents(w, 1) = RemoveAt(Contents(1), pos)
              /\ w.vec[1].size_ = Size(1) - 1
              /\ w.vec[1].data_ = vec[1].data_
              /\ w.mem[b][Size(1)] = Raw
              /\ \A i \in (Size(1) + 1)..Capacity(1) : w.mem[b][i] = mem[b][i]
              /\ w.retidx = pos /\ w.retbuf = b

\* an Erase in the middle of an array has returned
C6_Witness ==
    /\ last.op = "Erase" /\ last.res = "ok"
    /\ Size(1) >= 2 /\ Size(1) < Capacity(1) /\ LiveRange(1)
    /\ Contents(1)[1] # Contents(1)[2]

\* ---- C7 -----------------------------------------------------------------
\* C7: after n PushBack calls that return on the initially empty array Size() = n,
\* Capacity() >= n and element i is the i-th value pushed.
C7_PushBackSequence ==
    /\ Size(1) = Len(pushed)
    /\ Capacity(1) >= Len(pushed)
    /\ Contents(1) = pushed

\* three values have been pushed, the last one by a reallocation
C7_Witness ==
    /\ Len(pushed) = 3 /\ last.op = "PushBack" /\ last.res = "ok"
    /\ last.branch = "realloc"
    /\ pushed[1] # pushed[2]

\* ---- C8 -----------------------------------------------------------------
\* C8: in runs of PushBack/EmplaceBack/Emplace from the empty array the
\* capacity changes only in a step that found size = capacity, it becomes 1
\* from 0 and twice the old capacity otherwise, and Capacity() <= 2 * Size()
\* whenever Size() >= 1.
C8_Doubling ==
    /\ [](Size(1) >= 1 => Capacity(1) <= 2 * Size(1))
    /\ [][Capacity(1)' # Capacity(1) =>
            /\ Size(1) = Capacity(1)
            /\ Capacity(1)' = IF Capacity(1) = 0 THEN 1 ELSE 2 * Capacity(1)]_vars

\* an insertion has doubled the capacity from 2 to 4
C8_Witness ==
    /\ last.op \in {"PushBack", "EmplaceBack", "Emplace"} /\ last.res = "ok"
    /\ last.branch = "realloc"
    /\ Capacity(1) = 4 /\ Size(1) = 3

\* ---- C9 -----------------------------------------------------------------
\* C9: after every operation, failed ones included, 0 <= size <= capacity,
\* the slots [0, size) are live and the slots [size, capacity) are raw.
C9_SizeInvariant == \A t \in Vecs : Exists(t) => WellFormed(t)

\* ---- C3 -----------------------------------------------------------------
\* C3: on arrays of a copy constructible element type, a sized or copy
\* construct, copy assign, Reserve, Resize, PushBack, EmplaceBack,
\* reallocating Emplace or PopBack that fails leaves the array unchanged
\* (size, capacity, slots) or as the completed call leaves it.
C3_AllOrNothing ==
    [][(/\ last'.res = "throw" /\ copy_constructible
        /\ \/ last'.op \in {"VectorSized", "VectorCopy", "CopyAssign", "Reserve",
                            "Resize", "PushBack", "EmplaceBack", "PopBack"}
           \/ last'.op \in {"Emplace", "Insert"} /\ last'.branch = "realloc"
        /\ \A t \in Vecs : Exists(t) => WellFormed(t))
       => \/ Unchanged(last'.t)
          \/ /\ last'.op = "CopyAssign"
             /\ PostContents(last'.t) = Contents(last'.o)
             /\ PostCapacity(last'.t) = Capacity(last'.t)]_vars

\* ---- C4 -----------------------------------------------------------------
\* C4 as claimed: after a move construct or a move assign from x into
\* another array, x.Size() = 0, the destination holds the elements x held,
\* in order, and no element was copied.
C4_MoveEmptiesSource ==
    [][(last'.op \in {"VectorMove", "MoveAssign"} /\ last'.o # last'.t)
       => /\ PostSize(last'.o) = 0
          /\ PostContents(last'.t) = Contents(last'.o)
          /\ last'.ncopy = 0]_vars

\* C4 as amended: after a move construct from x, or a move assign from x into
\* a distinct destination d, the destination holds the elements x held, in
\* order, no element was copied, and x holds what d held before the call:
\* nothing after a move construct, the former elements of d after a move
\* assign, so that x.Size() = 0 only when d was empty.
C4_MoveTransfers ==
    [][(last'.op \in {"VectorMove", "MoveAssign"} /\ last'.o # last'.t)
       => /\ last'.res = "ok"
          /\ PostContents(last'.t) = Contents(last'.o)
          /\ PostCapacity(last'.t) = Capacity(last'.o)
          /\ PostContents(last'.o) =
                IF last'.op = "VectorMove" THEN <<>> ELSE Contents(last'.t)
          /\ PostSize(last'.o) = IF last'.op = "VectorMove" THEN 0 ELSE Size(last'.t)
          /\ last'.ncopy = 0]_vars

\* a move assign has put two elements into a destination that held one
C4_Witness ==
    /\ last.op = "MoveAssign" /\ last.o # last.t /\ last.o # 0
    /\ Size(last.t) = 2 /\ Size(last.o) = 1
    /\ Contents(last.t)[1] # Contents(last.t)[2]

\* ---- C10 ----------------------------------------------------------------
\* C10: a copy assign with other.size > capacity that fails, at the
\* allocation or at the copy of any element, leaves the destination (size,
\* capacity, slots) and other unchanged; one that returns leaves the
\* destination with the elements of other, in order, and size = other.size.
C10_CopyAndSwap ==
    [][(last'.op = "CopyAssign" /\ last'.branch = "copy_and_swap"
        /\ LiveRange(last'.o))
       => /\ Size(last'.o) > Capacity(last'.t)
          /\ Unchanged(last'.o)
          /\ last'.res = "throw" => Unchanged(last'.t)
          /\ last'.res = "ok" =>
                /\ PostContents(last'.t) = Contents(last'.o)
                /\ PostSize(last'.t) = Size(last'.o)]_vars

\* a copy-and-swap assign has thrown at the copy of the second element
C10_Witness ==
    /\ last.op = "CopyAssign" /\ last.branch = "copy_and_swap"
    /\ last.res = "throw" /\ last.fail = 3
    /\ Size(last.t) = 1 /\ Size(last.o) >= 2

\* ---- C11 ----------------------------------------------------------------
\* the call that ended in w made no array, released what it allocated and
\* left every buffer and every array as the state has them, without
\* destroying a raw slot or releasing a live object
NothingHappened(w) ==
    /\ w.obj = NoVector /\ w.new_data = EmptyRawMemory
    /\ w.mem = mem /\ w.vec = vec
    /\ ~w.leak /\ ~w.ub

\* C11: a sized construct of n elements or a copy construct of an array that
\* throws at the allocation or at the construction of element k < n has
\* destroyed the k elements it constructed and no other, has released the
\* new buffer, results in no array and leaves the source array as it was.
C11_CtorFailureCleansUp ==
    /\ \A n \in 0..(MaxCap + 1), cd \in Failures :
          LET w == SizedConstruct(World(cd, DefaultValue), n)
          IN /\ w.thrown => NothingHappened(w)
             /\ (n > 0 /\ cd <= n + 1) => w.thrown
    /\ \A o \in Vecs, cd \in Failures :
          LET w == VectorCopy(World(cd, DefaultValue), o)
          IN LiveRange(o) =>
                /\ w.thrown => NothingHappened(w)
                /\ (Size(o) > 0 /\ cd <= Size(o) + 1) => w.thrown

\* a copy construct of an array of two or more elements has thrown at the
\* copy of the second element or later
C11_Witness ==
    /\ last.op = "VectorCopy" /\ last.res = "throw" /\ last.fail >= 3
    /\ last.o # 0 /\ Size(last.o) >= 2
    /\ \E t \in Vecs : ~Exists(t)

\* ---- C12 ----------------------------------------------------------------
\* the call on vector t that ended in w left vector o as the state has it,
\* and the two do not share a buffer
Apart(w, t, o) ==
    /\ SameArray(w, o)
    /\ w.vec[t].data_.buffer_ # NullBuf =>
          w.vec[t].data_.buffer_ # w.vec[o].data_.buffer_

\* C12: a copy constructed array has the size of its source, a capacity equal
\* to that size, the same elements and a buffer of its own; and whenever
\* two arrays exist, a PushBack, Insert, Erase, Resize, PopBack or element
\* overwrite on one of them, returning or throwing, leaves the size,
\* capacity, buffer and elements of the other as they were.
C12_CopyIndependent ==
    /\ \A o \in Vecs :
          LET w == VectorCopy(World(0, DefaultValue), o)
              b == w.obj.data_.buffer_
          IN LiveRange(o) =>
                /\ ~w.thrown /\ w.obj.exists
                /\ w.obj.size_ = Size(o)
                /\ w.obj.data_.capacity_ = Size(o)
                /\ (b = NullBuf) = (Size(o) = 0)
                /\ b # NullBuf =>
                      /\ mem[b] = <<>>
                      /\ w.mem[b] = Contents(o)
                /\ w.vec = vec
                /\ \A i \in BufIds : mem[i] # <<>> => w.mem[i] = mem[i]
    /\ \A t \in Vecs : \A o \in Vecs \ {t} :
          (LiveRange(t) /\ Exists(o)) =>
             \A cd \in 0..MaxFail :
                LET W == World(cd, DefaultValue)
                IN /\ \A pos \in 0..Size(t), v \in Values :
                         Apart(Emplace(W, t, pos, v), t, o)
                   /\ \A pos \in 0..(Size(t) - 1) : Apart(Erase(W, t, pos), t, o)
                   /\ \A n \in 0..MaxCap : Apart(Resize(W, t, n), t, o)
                   /\ Apart(PopBack(W, t), t, o)
                   /\ \A i \in 0..(Size(t) - 1), v \in Values :
                         Apart(IndexAssign(W, t, i, v), t, o)

\* vector 1 is a copy of what vector 2 held, and vector 2 has since been
\* overwritten at an index
C12_Witness ==
    /\ last.op = "IndexAssign" /\ last.t = 2 /\ last.res = "ok"
    /\ Exists(1) /\ Size(1) = 2 /\ Capacity(1) = 2 /\ Size(2) = 2
    /\ Contents(1)[1] # Contents(2)[1]
    /\ Contents(1)[2] = Contents(2)[2]

\* ---- C13 ----------------------------------------------------------------
\* C13: Resize(n) on contents s that meets no failure leaves size n; for
\* n < size the contents s[0..n), the same buffer and capacity and exactly
\* the slots [n, size) destroyed; for n > size the contents s followed by
\* n - size value-initialized elements, in a capacity of n if n exceeded the
\* capacity and in the same buffer otherwise; for n = size nothing changes
\* and no element is constructed or destroyed.
C13_Resize ==
    \A n \in 0..(MaxCap + 1) :
        LET w == Resize(World(0, DefaultValue), 1, n)
            s == Contents(1)
            b == vec[1].data_.buffer_
        IN LiveRange(1) =>
              /\ ~w.thrown /\ ~w.ub /\ ~w.leak
              /\ w.vec[1].size_ = n
              /\ \A i \in 1..n : i <= Size(1) => WContents(w, 1)[i] = s[i]
              /\ n < Size(1) =>
                    /\ WContents(w, 1) = SubSeq(s, 1, n)
                    /\ w.vec[1].data_ = vec[1].data_
                    /\ \A i \in 1..Capacity(1) :
                          w.mem[b][i] = IF i > n /\ i <= Size(1) THEN Raw ELSE mem[b][i]
              /\ n > Size(1) =>
                    /\ WContents(w, 1) = s \o [i \in 1..(n - Size(1)) |-> DefaultValue]
                    /\ w.vec[1].data_.capacity_ =
                          IF n > Capacity(1) THEN n ELSE Capacity(1)
                    /\ n <= Capacity(1) => w.vec[1].data_ = vec[1].data_
              /\ n = Size(1) =>
                    /\ w.mem = mem /\ w.vec = vec
                    /\ Steps(Resize(World(MaxFail + 1, DefaultValue), 1, n)) = 0

\* a Resize has relocated an array of two different elements and appended
\* value-initialized ones
C13_Witness ==
    /\ last.op = "Resize" /\ last.res = "ok" /\ last.branch = "grow"
    /\ LiveRange(1) /\ Size(1) >= 3 /\ Capacity(1) = Size(1)
    /\ Contents(1)[1] # Contents(1)[2]
    /\ Contents(1)[Size(1)] = DefaultValue

\* ---- C14 ----------------------------------------------------------------
\* C14: Reserve(n) with n <= capacity changes nothing and takes no step;
\* Reserve(n) with n > capacity that meets no failure leaves a capacity of
\* exactly n, the same size and the same elements in the same order in a new
\* buffer whose other slots are raw, releases the old buffer, and constructs
\* nothing but the relocated elements: it takes the allocation and one
\* construction for each element, and on an empty array the allocation alone.
C14_ReserveFrame ==
    \A n \in 0..(MaxCap + 1) :
        LET w == Reserve(World(0, DefaultValue), 1, n)
            steps == Steps(Reserve(World(MaxFail + 1, DefaultValue), 1, n))
            b == vec[1].data_.buffer_
            nb == w.vec[1].data_.buffer_
        IN LiveRange(1) =>
              /\ ~w.thrown /\ ~w.ub /\ ~w.leak
              /\ n <= Capacity(1) =>
                    /\ w.mem = mem /\ w.vec = vec
                    /\ steps = 0 /\ w.ncopy = 0
              /\ n > Capacity(1) =>
                    /\ w.vec[1].data_.capacity_ = n
                    /\ w.vec[1].size_ = Size(1)
                    /\ WContents(w, 1) = Contents(1)
                    /\ Len(w.mem[nb]) = n
                    /\ \A i \in (Size(1) + 1)..n : w.mem[nb][i] = Raw
                    /\ b # NullBuf => (nb # b /\ w.mem[b] = <<>>)
                    /\ w.ncopy = IF UsesMove THEN 0 ELSE Size(1)
                    /\ steps = 1 + IF nothrow_move THEN 0 ELSE Size(1)

\* a Reserve has relocated two different elements into a larger buffer
C14_Witness ==
    /\ last.op = "Reserve" /\ last.res = "ok" /\ last.branch = "grow"
    /\ LiveRange(1) /\ Size(1) = 2 /\ Capacity(1) = 3
    /\ Contents(1)[1] # Contents(1)[2]

\* ---- C15 ----------------------------------------------------------------
\* C15: a move assign a = move(b) between distinct arrays leaves a with the
\* buffer, capacity and size b had and b with those a had, as a.Swap(b)
\* does, with every slot of every buffer as it was and no step of the
\* element type taken; a move assign of an array to itself changes nothing.
C15_MoveAssignSwaps ==
    \A t \in Vecs, o \in Vecs :
        LET w == OpMoveAssign(World(MaxFail + 1, DefaultValue), t, o)
        IN (Exists(t) /\ Exists(o)) =>
              /\ ~w.thrown /\ ~w.ub /\ ~w.leak
              /\ Steps(w) = 0 /\ w.ncopy = 0
              /\ w.mem = mem
              /\ t # o =>
                    /\ w.vec[t].data_ = vec[o].data_
                    /\ w.vec[t].size_ = vec[o].size_
                    /\ w.vec[o].data_ = vec[t].data_
                    /\ w.vec[o].size_ = vec[t].size_
                    /\ w.vec = Swap(World(0, DefaultValue), t, o).vec
              /\ t = o => w.vec = vec

\* a move assign has exchanged an array of one element in a buffer of one
\* slot with an array of two elements
C15_Witness ==
    /\ last.op = "MoveAssign" /\ last.o # last.t /\ last.o # 0
    /\ Size(last.t) = 1 /\ Capacity(last.t) = 1
    /\ Size(last.o) = 2 /\ Capacity(last.o) = 2
    /\ Contents(last.o)[1] # Contents(last.o)[2]

\* ---- C16 ----------------------------------------------------------------
\* C16: PopBack never throws and takes no step that may; on a non-empty
\* array it makes the slot of the last element raw and no other, leaves
\* size - 1 and the same buffer and capacity; on an empty array it changes
\* nothing and destroys nothing.
C16_PopBack ==
    LET w == PopBack(World(MaxFail + 1, DefaultValue), 1)
        b == vec[1].data_.buffer_
    IN LiveRange(1) =>
          /\ ~w.thrown /\ ~w.ub /\ ~w.leak /\ Steps(w) = 0
          /\ w.vec[1].data_ = vec[1].data_
          /\ \A i \in BufIds : i # b => w.mem[i] = mem[i]
          /\ Size(1) > 0 =>
                /\ w.vec[1].size_ = Size(1) - 1
                /\ WContents(w, 1) = SubSeq(Contents(1), 1, Size(1) - 1)
                /\ \A i \in 1..Capacity(1) :
                      w.mem[b][i] = IF i = Size(1) THEN Raw ELSE mem[b][i]
          /\ Size(1) = 0 => (w.mem = mem /\ w.vec = vec)

\* a PopBack has removed the last of three or more elements
C16_Witness ==
    /\ last.op = "PopBack" /\ last.res = "ok"
    /\ WellFormed(1) /\ Size(1) >= 2 /\ Size(1) < Capacity(1)
    /\ Contents(1)[1] # Contents(1)[2]

\* ---- C17 ----------------------------------------------------------------
\* C17: a copy assign from a distinct array other with other.size <=
\* capacity that meets no failure keeps the buffer and the capacity, leaves
\* size = other.size and the elements of other in order, makes exactly the
\* slots [other.size, size) raw when other is shorter and fills exactly the
\* slots [size, other.size) when it is longer, performs other.size copies
\* (min(size, other.size) assignments, the rest constructions) and leaves
\* other as it was.
C17_CopyAssignInPlace ==
    \A t \in Vecs : \A o \in Vecs \ {t} :
        LET w == OpCopyAssign(World(0, DefaultValue), t, o)
            steps == Steps(OpCopyAssign(World(MaxFail + 1, DefaultValue), t, o))
            b == vec[t].data_.buffer_
        IN (LiveRange(t) /\ LiveRange(o) /\ Size(o) <= Capacity(t)) =>
              /\ ~w.thrown /\ ~w.ub /\ ~w.leak
              /\ w.branch = IF Size(o) < Size(t) THEN "shrink" ELSE "extend"
              /\ w.vec[t].data_ = vec[t].data_
              /\ w.vec[t].size_ = Size(o)
              /\ WContents(w, t) = Contents(o)
              /\ \A i \in (Size(o) + 1)..Capacity(t) :
                    w.mem[b][i] = IF i <= Size(t) THEN Raw ELSE mem[b][i]
              /\ w.ncopy = Size(o) /\ steps = Size(o)
              /\ SameArray(w, o)
              /\ \A i \in BufIds : i # b => w.mem[i] = mem[i]

\* a copy assign has shrunk an array in place to the one element of the other
C17_Witness ==
    /\ last.op = "CopyAssign" /\ last.branch = "shrink" /\ last.res = "ok"
    /\ last.o # 0 /\ Size(last.o) = 1 /\ Size(last.t) = 1
    /\ Capacity(last.t) >= 2 /\ WellFormed(last.t)
    /\ Contents(last.t) = Contents(last.o)

\* ---- C18 ----------------------------------------------------------------
\* C18: for a copy constructible element type, a Reserve that grows or a
\* reallocating Emplace that throws has altered no element of the array it
\* was relocating: every slot of [0, size) holds the value it held before
\* the call.
C18_RelocationKeepsSource ==
    [][(/\ \/ last'.op = "Reserve" /\ last'.branch = "grow"
           \/ /\ last'.op \in {"PushBack", "EmplaceBack", "Emplace", "Insert"}
              /\ last'.branch = "realloc"
        /\ last'.res = "throw"
        /\ copy_constructible /\ LiveRange(1))
       => /\ PostSize(1) = Size(1)
          /\ PostContents(1) = Contents(1)]_vars

\* ---- C19 ----------------------------------------------------------------
\* C19: no call, returning or throwing, releases a buffer that still holds a
\* live object or constructs over one (an object that is never destroyed),
\* and none destroys or uses a slot that holds no live object (an object
\* destroyed twice, a raw slot destroyed).
C19_DestroyedExactlyOnce == ~last.leak /\ ~last.ub

\* ---- C20 ----------------------------------------------------------------
\* C20: Insert(p, v[i]) with v[i] an element of the array itself, on
\* contents s, that meets no failure yields s[0..p) ++ [s[i]] ++ s[p..size)
\* in the reallocating, shifting and appending branches: the value inserted
\* is the one element i held before the call, wherever i lies relative to p.
C20_InsertOwnElement ==
    \A pos \in 0..Size(1), i \in 0..(Size(1) - 1) :
        LET w == EmplaceFrom(World(0, DefaultValue), 1, pos, i)
            s == Contents(1)
        IN LiveRange(1) =>
              /\ ~w.thrown /\ ~w.ub
              /\ w.branch = IF Size(1) >= Capacity(1) THEN "realloc"
                            ELSE IF pos # Size(1) THEN "shift" ELSE "append"
              /\ w.vec[1].size_ = Size(1) + 1
              /\ WContents(w, 1) = InsertAt(s, pos, s[i + 1])
              /\ w.retidx = pos

\* an Insert in the shifting branch has put at the front a copy of an
\* element that lay behind the position and was itself shifted
C20_Witness ==
    /\ last.op = "InsertFrom" /\ last.res = "ok" /\ last.branch = "shift"
    /\ Size(1) = 3 /\ Contents(1) = <<2, 1, 2>>

====
